---------------------------- MODULE Spec2Model ----------------------------
(***************************************************************************)
(* A model of loopnet_assisted_living_scraper.py: the text patterns, the  *)
(* Field Parser (parse_listing_text), region resolution, the challenge    *)
(* wait, the pagination loop, dedup, enrichment and the size filter.      *)
(* Text is modelled as TLA+ strings, read character by character.         *)
(***************************************************************************)
EXTENDS Integers, Sequences, FiniteSets, TLC

VARIABLES
    \* the Field Parser on one block
    block,      \* the block's raw text
    nlines,     \* lines put into block so far
    listing,    \* what parse_listing_text returned
    parsed,     \* parse_listing_text has run
    info,       \* what scrape_detail_page returned for the same text
    \* dedupe on one list of records
    listings,   \* the records handed to dedupe, in discovery order
    out,        \* what dedupe returned
    deduped,    \* dedupe has run
    \* the size filter on one list of records
    candidates, \* the records handed to the size filter
    final,      \* the records left after meets_criteria and the exclusion loop
    filtered,   \* the size filter has run
    min_beds,   \* the module global MIN_BEDS, read when the filter runs
    min_units,  \* the module global MIN_UNITS
    \* region resolution at import time
    states_input,   \* the configured tokens
    resolved,       \* what _expand_states did: its codes, or the error it raised
    import_pc,      \* "config", "imported", "raised" or "main"
    navigations,    \* navigate calls issued so far
    \* one call of wait_for_captcha
    caller,     \* "navigate", "main" or "scrape_detail_page"
    timeout,    \* the ceiling the caller passed
    elapsed,    \* time.time() - start, in seconds
    polled_at,  \* elapsed when the last poll began, -1 before the first
    warned,
    wait_pc,    \* "idle", "loop", "returned" or "continued"
    result,     \* the value returned
    \* one run of main
    pc,             \* "start", "region", "page", "dedupe", "enrich", "exported",
                    \* "crashed" (an exception left main's try), "done" or "failed"
    region,         \* i + 1, for the i of "for i, url in enumerate(SEARCH_URLS)"
    page_num,
    all_listings,
    page_yield,     \* len(cards) of each page scraped in this region, in order
    advances,       \* what each click_next call of this region returned, in order
    handed,         \* the blocks the last scrape_search_page handed to the parser
    returned,       \* what parse_listing_text returned for each of them
    enrich_at,      \* i + 1, for the i of "for i, lst in enumerate(all_listings)"
    before,         \* all_listings as it was before the last merge
    last_detail,    \* the detail the last merge applied
    merged_at,      \* the position of the record the last merge updated, 0 for none
    works,          \* what works in the browser while this region is visited:
                    \* element queries (query) and the read of the body text (body)
    exported,       \* the records handed to write_excel
    browser_open,
    \* scrape_search_page on one rendered page
    shown,      \* the page: found, anchors, body_text
    nshown,     \* elements put on the page so far
    scrape      \* what scrape_search_page did: done, strategy, blocks, results, cards, dumped

parserVars == <<block, nlines, listing, parsed, info>>
dedupeVars == <<listings, out, deduped>>
filterVars == <<candidates, final, filtered, min_beds, min_units>>
importVars == <<states_input, resolved, import_pc, navigations>>
waitVars == <<caller, timeout, elapsed, polled_at, warned, wait_pc, result>>
mainVars == <<pc, region, page_num, all_listings, page_yield, advances, handed, returned,
              enrich_at, before, last_detail, merged_at, works, exported, browser_open>>
extractVars == <<shown, nshown, scrape>>
vars == <<parserVars, dedupeVars, filterVars, importVars, waitVars, mainVars, extractVars>>

(***************************************************************************)
(* Characters and the str methods the program uses                        *)
(***************************************************************************)
Ch(s, i) == SubSeq(s, i, i)

UpperSeq == "ABCDEFGHIJKLMNOPQRSTUVWXYZ"
LowerSeq == "abcdefghijklmnopqrstuvwxyz"
DigitSeq == "0123456789"

UpperSet == {Ch(UpperSeq, i) : i \in 1..26}
LowerSet == {Ch(LowerSeq, i) : i \in 1..26}
DigitSet == {Ch(DigitSeq, i) : i \in 1..10}
\* \s of the re module, on the characters a TLA+ string can hold
SpaceSet == {" ", "\t", "\n", "\r", "\f"}
\* \w of the re module (for \b)
WordSet  == UpperSet \cup LowerSet \cup DigitSet \cup {"_"}

LowerTable == [c \in UpperSet |-> Ch(LowerSeq, CHOOSE i \in 1..26 : Ch(UpperSeq, i) = c)]
DigitTable == [c \in DigitSet |-> (CHOOSE i \in 1..10 : Ch(DigitSeq, i) = c) - 1]

LowerCh(c) == IF c \in UpperSet THEN LowerTable[c] ELSE c

\* the characters lo..hi of s lower-cased (halving keeps the recursion shallow)
RECURSIVE LowerRange(_, _, _)
LowerRange(s, lo, hi) ==
    IF lo > hi THEN ""
    ELSE IF lo = hi THEN LowerCh(Ch(s, lo))
    ELSE LET mid == (lo + hi) \div 2
         IN  LowerRange(s, lo, mid) \o LowerRange(s, mid + 1, hi)

\* str.lower()
Lower(s) == LowerRange(s, 1, Len(s))

\* str.strip()
Strip(s) ==
    LET keep == {i \in 1..Len(s) : Ch(s, i) \notin SpaceSet}
    IN  IF keep = {} THEN ""
        ELSE SubSeq(s, CHOOSE i \in keep : \A j \in keep : i <= j,
                       CHOOSE i \in keep : \A j \in keep : i >= j)

\* s[i:i+len(lit)] == lit
At(s, i, lit) == i >= 1 /\ i + Len(lit) - 1 <= Len(s) /\ SubSeq(s, i, i + Len(lit) - 1) = lit

\* sub in s
Contains(s, sub) == \E i \in 1..(Len(s) + 1) : At(s, i, sub)

\* any(k in s for k in keys)
ContainsAny(s, keys) == \E k \in keys : Contains(s, k)

\* s.startswith(p)
StartsWith(s, p) == At(s, 1, p)

RECURSIVE ReplaceFrom(_, _, _, _)
ReplaceFrom(s, i, old, new) ==
    LET hits == {j \in i..Len(s) : At(s, j, old)}
    IN  IF hits = {} THEN SubSeq(s, i, Len(s))
        ELSE LET j == CHOOSE k \in hits : \A m \in hits : k <= m
             IN  SubSeq(s, i, j - 1) \o new \o ReplaceFrom(s, j + Len(old), old, new)

\* str.replace(old, new), old non-empty
Replace(s, old, new) == ReplaceFrom(s, 1, old, new)

RECURSIVE SplitFrom(_, _, _)
SplitFrom(s, i, sep) ==
    LET hits == {j \in i..Len(s) : Ch(s, j) = sep}
    IN  IF hits = {} THEN <<SubSeq(s, i, Len(s))>>
        ELSE LET j == CHOOSE k \in hits : \A m \in hits : k <= m
             IN  <<SubSeq(s, i, j - 1)>> \o SplitFrom(s, j + 1, sep)

\* str.split(sep), sep one character
Split(s, sep) == SplitFrom(s, 1, sep)

RECURSIVE IntFrom(_, _, _)
IntFrom(s, i, acc) ==
    IF i > Len(s) THEN acc ELSE IntFrom(s, i + 1, 10 * acc + DigitTable[Ch(s, i)])

\* int(s), s a run of digits
Int10(s) == IntFrom(s, 1, 0)

(***************************************************************************)
(* Pattern matching: the pieces the compiled patterns are made of         *)
(***************************************************************************)
\* the first position at or after i whose character is not in class
SkipClass(s, i, class) ==
    LET stop == {j \in i..Len(s) : Ch(s, j) \notin class}
    IN  IF stop = {} THEN Len(s) + 1 ELSE CHOOSE j \in stop : \A k \in stop : j <= k

\* re.search of  (class+) rest : the leftmost position where a run of class
\* characters starts and rest matches right after the whole run; 0 if none.
\* (No rest of the program's patterns starts with a character of its run's
\* class, so the greedy run is the only one that can match.)
RunSearch(s, class, Rest(_, _)) ==
    LET hits == {i \in 1..Len(s) : Ch(s, i) \in class /\ Rest(s, SkipClass(s, i, class))}
    IN  IF hits = {} THEN 0 ELSE CHOOSE i \in hits : \A j \in hits : i <= j

\* group(1) of that match
RunGroup(s, class, i) == SubSeq(s, i, SkipClass(s, i, class) - 1)

SepSet == SpaceSet \cup {"-"}

(***************************************************************************)
(* The pre-compiled patterns.  The IGNORECASE ones are matched on the     *)
(* lower-cased text, their literals being lower case.                     *)
(***************************************************************************)
\* (\d+)[\s-]*(?:bed|licensed\s*bed)
BedRest(s, e) ==
    LET j == SkipClass(s, e, SepSet)
    IN  At(s, j, "bed") \/ (At(s, j, "licensed") /\ At(s, SkipClass(s, j + 8, SpaceSet), "bed"))

\* _RE_BED.search(text): <<>> for no match, else <<group(1)>>
RE_BED(text) ==
    LET s == Lower(text)
        i == RunSearch(s, DigitSet, BedRest)
    IN  IF i = 0 THEN <<>> ELSE <<RunGroup(s, DigitSet, i)>>

\* (\d+)[\s-]*(?:bed|licensed)
BedDetailRest(s, e) ==
    LET j == SkipClass(s, e, SepSet)
    IN  At(s, j, "bed") \/ At(s, j, "licensed")

RE_BED_DETAIL(text) ==
    LET s == Lower(text)
        i == RunSearch(s, DigitSet, BedDetailRest)
    IN  IF i = 0 THEN <<>> ELSE <<RunGroup(s, DigitSet, i)>>

\* (\d+)[\s-]*unit
UnitRest(s, e) == At(s, SkipClass(s, e, SepSet), "unit")

RE_UNIT(text) ==
    LET s == Lower(text)
        i == RunSearch(s, DigitSet, UnitRest)
    IN  IF i = 0 THEN <<>> ELSE <<RunGroup(s, DigitSet, i)>>

\* (\d+)[\s-]*room
RoomRest(s, e) == At(s, SkipClass(s, e, SepSet), "room")

RE_ROOM(text) ==
    LET s == Lower(text)
        i == RunSearch(s, DigitSet, RoomRest)
    IN  IF i = 0 THEN <<>> ELSE <<RunGroup(s, DigitSet, i)>>

\* ([\d.]+)\s*%?\s*cap
CapClass == DigitSet \cup {"."}

CapRest(s, e) ==
    LET j == SkipClass(s, e, SpaceSet)
        k == IF At(s, j, "%") THEN j + 1 ELSE j
    IN  At(s, SkipClass(s, k, SpaceSet), "cap")

RE_CAP(text) ==
    LET s == Lower(text)
        i == RunSearch(s, CapClass, CapRest)
    IN  IF i = 0 THEN <<>> ELSE <<RunGroup(s, CapClass, i)>>

\* \$[\d,]+
RE_PRICE(line) ==
    \E i \in 1..(Len(line) - 1) : Ch(line, i) = "$" /\ Ch(line, i + 1) \in DigitSet \cup {","}

\* ,\s*[A-Z]{2}\s+\d{5}
RE_ADDR_ZIP(line) ==
    \E i \in 1..Len(line) :
        /\ Ch(line, i) = ","
        /\ LET j == SkipClass(line, i + 1, SpaceSet)
               k == SkipClass(line, j + 2, SpaceSet)
           IN  /\ j + 1 <= Len(line)
               /\ Ch(line, j) \in UpperSet /\ Ch(line, j + 1) \in UpperSet
               /\ k > j + 2
               /\ k + 4 <= Len(line)
               /\ \A d \in k..(k + 4) : Ch(line, d) \in DigitSet

\* ,\s*[A-Z]{2}\s*$   (a line holds no line break)
RE_ADDR_STATE(line) ==
    \E i \in 1..Len(line) :
        /\ Ch(line, i) = ","
        /\ LET j == SkipClass(line, i + 1, SpaceSet)
           IN  /\ j + 1 <= Len(line)
               /\ Ch(line, j) \in UpperSet /\ Ch(line, j + 1) \in UpperSet
               /\ SkipClass(line, j + 2, SpaceSet) = Len(line) + 1

SqftClass == DigitSet \cup {","}

\* the end of (?:sqft|sq\s*ft|sf) matched at j, as a set of positions after it
SqftUnitEnds(s, j) ==
    (IF At(s, j, "sqft") THEN {j + 4} ELSE {})
    \cup (IF At(s, j, "sq") /\ At(s, SkipClass(s, j + 2, SpaceSet), "ft")
          THEN {SkipClass(s, j + 2, SpaceSet) + 2} ELSE {})
    \cup (IF At(s, j, "sf") THEN {j + 2} ELSE {})

\* [\d,]+\s*(?:sqft|sq\s*ft|sf)\b
SqftCheckRest(s, e) ==
    \E p \in SqftUnitEnds(s, SkipClass(s, e, SpaceSet)) : p > Len(s) \/ Ch(s, p) \notin WordSet

RE_SQFT_CHECK(text) == RunSearch(Lower(text), SqftClass, SqftCheckRest) # 0

\* ([\d,]+)\s*(?:sqft|sq\s*ft|sf)
SqftExtractRest(s, e) == SqftUnitEnds(s, SkipClass(s, e, SpaceSet)) # {}

RE_SQFT_EXTRACT(text) ==
    LET s == Lower(text)
        i == RunSearch(s, SqftClass, SqftExtractRest)
    IN  IF i = 0 THEN <<>> ELSE <<RunGroup(s, SqftClass, i)>>

(***************************************************************************)
(* Field Parser: parse_listing_text                                       *)
(***************************************************************************)
None == [none |-> TRUE]

SKIP_PHRASES ==
    {"view details", "view property", "view listing", "view photos",
     "save search", "sign up", "log in", "show map", "clear filters",
     "results per page", "save my search", "see new listings",
     "create alert", "get alerts", "view om", "view flyer"}

PROP_TYPE_KEYS ==
    {"assisted living", "senior living", "senior housing",
     "nursing home", "memory care", "skilled nursing",
     "continuing care", "medical care", "health care",
     "residential care", "adult care", "group home"}

BROKER_KEYS ==
    {"marcus", "millichap", "cbre", "cushman", "jll",
     "colliers", "newmark", "berkadia", "ad advisors",
     "fish commercial", "realty", "advisors group",
     "capital", "brokerage", "keller williams",
     "coldwell banker", "century 21", "nai", "svn"}

FALLBACK_SKIPS == {"view", "save", "sign up", "show map", "clear", "results per"}

\* lines = [l.strip() for l in text.replace("·", "\n").split("\n") if l.strip()]
SplitLines(text) ==
    LET raw == Split(Replace(text, "·", "\n"), "\n")
        stripped == [i \in 1..Len(raw) |-> Strip(raw[i])]
    IN  SelectSeq(stripped, LAMBDA l : l # "")

\* the line is on the stoplist of UI-chrome phrases
Skipped(line) == ContainsAny(Lower(Strip(line)), SKIP_PHRASES)

\* the pattern of each category, on one line (the condition of each branch
\* of the chain without its "and not <field>")
PricePattern(line) ==
    LET ll == Lower(Strip(line))
    IN  \/ RE_PRICE(line)
        \/ Contains(ll, "price not disclosed")
        \/ (Contains(ll, "call for") /\ Contains(ll, "price"))
        \/ Contains(ll, "negotiable")

\* the value the price branches store
PriceValue(line) ==
    LET ll == Lower(Strip(line))
    IN  IF RE_PRICE(line) THEN Strip(line)
        ELSE IF Contains(ll, "price not disclosed") THEN "Price Not Disclosed"
        ELSE IF Contains(ll, "call for") /\ Contains(ll, "price") THEN "Call for Price"
        ELSE "Negotiable"

AddressPattern(line) == RE_ADDR_ZIP(line) \/ RE_ADDR_STATE(line)

SqftPattern(line) == RE_SQFT_CHECK(Lower(Strip(line)))

SqftValue(line) ==
    LET sf_match == RE_SQFT_EXTRACT(Lower(Strip(line)))
    IN  IF sf_match # <<>> THEN sf_match[1] \o " SF" ELSE ""

PropTypePattern(line) == ContainsAny(Lower(Strip(line)), PROP_TYPE_KEYS)

BrokerPattern(line) == ContainsAny(Lower(Strip(line)), BROKER_KEYS)

\* the chain with its address branches missing "and not address"
ClassifyLine_Overwrite(f, line) ==
    LET ll == Lower(Strip(line))
    IN  IF ContainsAny(ll, SKIP_PHRASES) THEN f
        ELSE IF PricePattern(line) /\ f.price = "" THEN [f EXCEPT !.price = PriceValue(line)]
        ELSE IF AddressPattern(line) THEN [f EXCEPT !.address = Strip(line)]
        ELSE IF SqftPattern(line) /\ f.sqft = "" THEN [f EXCEPT !.sqft = SqftValue(line)]
        ELSE IF PropTypePattern(line) /\ f.prop_type = "" THEN [f EXCEPT !.prop_type = Strip(line)]
        ELSE IF BrokerPattern(line) /\ f.broker = "" THEN [f EXCEPT !.broker = Strip(line)]
        ELSE f

\* one iteration of "for line in lines": the if/elif chain, on the fields so far
ClassifyLine(f, line) ==
    LET ll == Lower(Strip(line))
    IN  IF ContainsAny(ll, SKIP_PHRASES) THEN f
        ELSE IF RE_PRICE(line) /\ f.price = "" THEN [f EXCEPT !.price = Strip(line)]
        ELSE IF Contains(ll, "price not disclosed") /\ f.price = ""
             THEN [f EXCEPT !.price = "Price Not Disclosed"]
        ELSE IF Contains(ll, "call for") /\ Contains(ll, "price") /\ f.price = ""
             THEN [f EXCEPT !.price = "Call for Price"]
        ELSE IF Contains(ll, "negotiable") /\ f.price = "" THEN [f EXCEPT !.price = "Negotiable"]
        ELSE IF RE_ADDR_ZIP(line) /\ f.address = "" THEN [f EXCEPT !.address = Strip(line)]
        ELSE IF RE_ADDR_STATE(line) /\ f.address = "" THEN [f EXCEPT !.address = Strip(line)]
        ELSE IF RE_SQFT_CHECK(ll) /\ f.sqft = ""
             THEN LET sf_match == RE_SQFT_EXTRACT(ll)
                  IN  IF sf_match # <<>> THEN [f EXCEPT !.sqft = sf_match[1] \o " SF"] ELSE f
        ELSE IF ContainsAny(ll, PROP_TYPE_KEYS) /\ f.prop_type = ""
             THEN [f EXCEPT !.prop_type = Strip(line)]
        ELSE IF ContainsAny(ll, BROKER_KEYS) /\ f.broker = "" THEN [f EXCEPT !.broker = Strip(line)]
        ELSE f

RECURSIVE ClassifyFrom(_, _, _)
ClassifyFrom(lines, i, f) ==
    IF i > Len(lines) THEN f ELSE ClassifyFrom(lines, i + 1, ClassifyLine(f, lines[i]))

\* the "for line in lines" loop, from the empty fields
ClassifyLines(lines) ==
    ClassifyFrom(lines, 1, [price |-> "", address |-> "", sqft |-> "", prop_type |-> "", broker |-> ""])

\* the secondary pass: the first long line with no "$" that is not chrome, or ""
FallbackPropType(lines) ==
    LET ok == {i \in 1..Len(lines) :
                 /\ ~ContainsAny(Lower(lines[i]), FALLBACK_SKIPS)
                 /\ Len(lines[i]) > 15
                 /\ ~Contains(lines[i], "$")}
    IN  IF ok = {} THEN "" ELSE Strip(lines[CHOOSE i \in ok : \A j \in ok : i <= j])

\* beds, units (with the room fallback) and cap_rate, from the whole text
ParseBeds(text) ==
    LET bed_match == RE_BED(Lower(text)) IN IF bed_match # <<>> THEN Int10(bed_match[1]) ELSE 0

ParseUnits(text) ==
    LET unit_match == RE_UNIT(Lower(text))
        room_match == RE_ROOM(Lower(text))
        units == IF unit_match # <<>> THEN Int10(unit_match[1]) ELSE 0
    IN  IF room_match # <<>> /\ units = 0 THEN Int10(room_match[1]) ELSE units

ParseCapRate(text) ==
    LET cap_match == RE_CAP(Lower(text)) IN IF cap_match # <<>> THEN cap_match[1] \o "% CAP" ELSE ""

\* the rejection rule that wants a price
Rejected_NoPrice(price, beds, units) == price = ""

\* the rejection rule
Rejected(price, beds, units) == price = "" /\ beds = 0 /\ units = 0

\* where the line classified as broker company is stored
BrokerFields(broker) == [broker_name |-> broker, broker_company |-> ""]

parse_listing_text(text, link, state) ==
    LET lines == SplitLines(text)
        beds  == ParseBeds(text)
        units == ParseUnits(text)
        f     == ClassifyLines(lines)
        prop_type == IF f.address = "" /\ f.prop_type = "" THEN FallbackPropType(lines)
                     ELSE f.prop_type
    IN  IF lines = <<>> THEN None
        ELSE IF Rejected(f.price, beds, units) THEN None
        ELSE [address |-> f.address, price |-> f.price, beds |-> beds, units |-> units,
              sqft |-> f.sqft, property_type |-> prop_type, cap_rate |-> ParseCapRate(text),
              broker_name |-> BrokerFields(f.broker).broker_name,
              broker_phone |-> "", broker_email |-> "",
              broker_company |-> BrokerFields(f.broker).broker_company,
              listing_url |-> link, state |-> state]

(***************************************************************************)
(* Listing Block Extractor: scrape_search_page.  A rendered page is what  *)
(* the browser answers: found[k], the elements matching card selector k   *)
(* (each with its inner text and the href of its first listing anchor, if *)
(* any); anchors, the page's <a> elements (href, and the inner text of    *)
(* the enclosing block); body_text, the inner text of <body>.             *)
(***************************************************************************)
NUM_CARD_SELECTORS == 16

LOOPNET == "https://www.loopnet.com"

\* /Listing/\d|/listing/\d|/property/   (IGNORECASE)
RE_PROPERTY_PATH(href) ==
    LET h == Lower(href)
    IN  \/ \E i \in 1..Len(h) : At(h, i, "/listing/") /\ i + 9 <= Len(h) /\ Ch(h, i + 9) \in DigitSet
        \/ Contains(h, "/property/")

VIEW_WORDS == {"details", "property", "listing", "photos", "om"}

\* (?:View\s+(?:Details|Property|Listing|Photos|OM))\s*·?\s*  (IGNORECASE)
\* matched at i of s: the position after the match, 0 for no match
ViewMatchEnd(s, i) ==
    LET l == Lower(s)
        j == SkipClass(l, i + 4, SpaceSet)
        w == {x \in VIEW_WORDS : At(l, j, x)}
    IN  IF ~At(l, i, "view") \/ j = i + 4 \/ w = {} THEN 0
        ELSE LET k == SkipClass(l, j + Len(CHOOSE x \in w : TRUE), SpaceSet)
                 d == IF At(s, k, "·") THEN k + Len("·") ELSE k
             IN  SkipClass(l, d, SpaceSet)

RECURSIVE ViewSplitFrom(_, _)
ViewSplitFrom(s, i) ==
    LET hits == {j \in i..Len(s) : ViewMatchEnd(s, j) # 0}
    IN  IF hits = {} THEN <<SubSeq(s, i, Len(s))>>
        ELSE LET j == CHOOSE k \in hits : \A x \in hits : k <= x
             IN  <<SubSeq(s, i, j - 1)>> \o ViewSplitFrom(s, ViewMatchEnd(s, j))

\* _RE_VIEW_SPLIT.split(body_text)
RE_VIEW_SPLIT(s) == ViewSplitFrom(s, 1)

\* page.query_selector_all(card_selectors[k]); a failed query gives nothing
QuerySelectorAll(page, k, query_ok) ==
    IF query_ok /\ k \in DOMAIN page.found THEN page.found[k] ELSE <<>>

\* cards taken from the first selector that finds anything
FindCards_Any(page, query_ok) ==
    LET wins == {k \in 1..NUM_CARD_SELECTORS : Len(QuerySelectorAll(page, k, query_ok)) > 0}
    IN  IF wins = {} THEN <<>>
        ELSE QuerySelectorAll(page, CHOOSE k \in wins : \A j \in wins : k <= j, query_ok)

\* cards: the elements of the first selector that finds more than one
FindCards(page, query_ok) ==
    LET wins == {k \in 1..NUM_CARD_SELECTORS : Len(QuerySelectorAll(page, k, query_ok)) > 1}
    IN  IF wins = {} THEN <<>>
        ELSE QuerySelectorAll(page, CHOOSE k \in wins : \A j \in wins : k <= j, query_ok)

\* h if h.startswith("http") else "https://www.loopnet.com" + h
FullUrl(h) == IF StartsWith(h, "http") THEN h ELSE LOOPNET \o h

LINK_SKIPS ==
    {"senior-housing", "senior-living", "assisted-living", "?types=", "?propertyTypes=", "/search/"}

\* property_links: the loop over all_links, as <<text, url>> pairs
RECURSIVE PropertyLinksFrom(_, _, _, _)
PropertyLinksFrom(anchors, i, seen, acc) ==
    IF i > Len(anchors) THEN acc
    ELSE LET href == anchors[i].href
         IN  IF RE_PROPERTY_PATH(href) /\ href \notin seen
             THEN IF ContainsAny(Lower(href), LINK_SKIPS)
                  THEN PropertyLinksFrom(anchors, i + 1, seen, acc)
                  ELSE PropertyLinksFrom(anchors, i + 1, seen \cup {href},
                                         Append(acc, [text |-> anchors[i].text, url |-> FullUrl(href)]))
             ELSE PropertyLinksFrom(anchors, i + 1, seen, acc)

FindPropertyLinks(page, query_ok) ==
    IF query_ok THEN PropertyLinksFrom(page.anchors, 1, {}, <<>>) ELSE <<>>

\* the link of a card: its first listing anchor, unless it is a search link
CardLink(card) ==
    IF card.link = <<>> THEN ""
    ELSE LET h == card.link[1]
         IN  IF ContainsAny(Lower(h), {"search", "?types="}) THEN "" ELSE FullUrl(h)

\* the blocks handed to parse_listing_text, as <<text, link>> pairs, by strategy
CardBlocks(cards) ==
    LET usable == SelectSeq(cards, LAMBDA c : Len(Strip(c.text)) >= 10)
    IN  [i \in 1..Len(usable) |-> <<usable[i].text, CardLink(usable[i])>>]

LinkBlocks(links) ==
    LET usable == SelectSeq(links, LAMBDA pl : Len(Strip(pl.text)) >= 5)
    IN  [i \in 1..Len(usable) |-> <<usable[i].text, usable[i].url>>]

PageTextBlocks(body_text) ==
    LET pieces   == RE_VIEW_SPLIT(body_text)
        stripped == [i \in 1..Len(pieces) |-> Strip(pieces[i])]
        usable   == SelectSeq(stripped, LAMBDA b :
                        /\ Len(b) > 20
                        /\ (Contains(b, "$") \/ Contains(Lower(b), "bed") \/ Contains(Lower(b), "unit")))
    IN  [i \in 1..Len(usable) |-> <<usable[i], "">>]

\* the strategy scrape_search_page takes: "card", "link" or "page"
Strategy(page, query_ok) ==
    IF FindCards(page, query_ok) # <<>> THEN "card"
    ELSE IF FindPropertyLinks(page, query_ok) # <<>> THEN "link"
    ELSE "page"

\* body_ok: page.inner_text("body") did not raise
SearchBlocks(page, query_ok, body_ok) ==
    CASE Strategy(page, query_ok) = "card" -> CardBlocks(FindCards(page, query_ok))
      [] Strategy(page, query_ok) = "link" -> LinkBlocks(FindPropertyLinks(page, query_ok))
      [] OTHER -> PageTextBlocks(IF body_ok THEN page.body_text ELSE "")

\* key = l.get("listing_url") or l.get("address", "")
PageKey(l) == IF l.listing_url # "" THEN l.listing_url ELSE l.address

RECURSIVE UniqueFrom(_, _, _, _)
UniqueFrom(ls, i, seen, acc) ==
    IF i > Len(ls) THEN acc
    ELSE LET key == PageKey(ls[i])
         IN  IF key # "" /\ key \notin seen
             THEN UniqueFrom(ls, i + 1, seen \cup {key}, Append(acc, ls[i]))
             ELSE UniqueFrom(ls, i + 1, seen, acc)

\* what parse_listing_text returns for each block, None included
ParseBlocks(blocks, state) ==
    [i \in 1..Len(blocks) |-> parse_listing_text(blocks[i][1], blocks[i][2], state)]

\* scrape_search_page, from the parsed blocks: those accepted, unique by page key
UniqueListings(parsed_blocks) ==
    UniqueFrom(SelectSeq(parsed_blocks, LAMBDA l : l # None), 1, {}, <<>>)

scrape_search_page(page, state, query_ok, body_ok) ==
    UniqueListings(ParseBlocks(SearchBlocks(page, query_ok, body_ok), state))

(***************************************************************************)
(* Detail Enricher: scrape_detail_page.  A detail page is its body text   *)
(* and what the contact selectors, the tel:/mailto: links and the contact *)
(* patterns find on it; raises says a browser call raised before the body *)
(* text was read.                                                         *)
(***************************************************************************)
LetterSpaceSet == UpperSet \cup LowerSet \cup SpaceSet

\* (\d+[^,\n]+,\s*[A-Za-z\s]+,\s*[A-Z]{2}\s+\d{5}) matched at i: the position
\* after the match, 0 for no match
FullAddrEnd(s, i) ==
    LET c1 == SkipClass(s, i, {Ch(s, x) : x \in i..Len(s)} \ {",", "\n"})
        c2 == SkipClass(s, c1 + 1, LetterSpaceSet)
        j  == SkipClass(s, c2 + 1, SpaceSet)
        k  == SkipClass(s, j + 2, SpaceSet)
    IN  IF /\ Ch(s, i) \in DigitSet
           /\ c1 >= i + 2 /\ At(s, c1, ",")
           /\ c2 >= c1 + 2 /\ At(s, c2, ",")
           /\ j + 1 <= Len(s) /\ Ch(s, j) \in UpperSet /\ Ch(s, j + 1) \in UpperSet
           /\ k > j + 2 /\ k + 4 <= Len(s)
           /\ \A d \in k..(k + 4) : Ch(s, d) \in DigitSet
        THEN k + 5 ELSE 0

\* _RE_FULL_ADDR.search(s): <<>> or <<group(1)>>
RE_FULL_ADDR(s) ==
    LET hits == {i \in 1..Len(s) : FullAddrEnd(s, i) # 0}
    IN  IF hits = {} THEN <<>>
        ELSE LET i == CHOOSE k \in hits : \A x \in hits : k <= x
             IN  <<SubSeq(s, i, FullAddrEnd(s, i) - 1)>>

EmptyInfo ==
    [broker_name |-> "", broker_phone |-> "", broker_email |-> "", broker_company |-> "",
     beds |-> 0, units |-> 0, sqft |-> "", address |-> "", cap_rate |-> "", property_type |-> ""]

\* a detail page on which nothing is found
BlankDetail ==
    [raises |-> FALSE, body_text |-> "", broker_name |-> "", broker_phone |-> "",
     broker_email |-> "", broker_company |-> ""]

DetailBeds(body_text) ==
    LET bed_match == RE_BED_DETAIL(Lower(body_text))
    IN  IF bed_match # <<>> THEN Int10(bed_match[1]) ELSE 0

DetailUnits(body_text) ==
    LET unit_match == RE_UNIT(Lower(body_text))
        room_match == RE_ROOM(Lower(body_text))
        units == IF unit_match # <<>> THEN Int10(unit_match[1]) ELSE 0
    IN  IF units = 0 /\ room_match # <<>> THEN Int10(room_match[1]) ELSE units

scrape_detail_page(d) ==
    IF d.raises THEN EmptyInfo
    ELSE LET sf_match   == RE_SQFT_EXTRACT(Lower(d.body_text))
             addr_match == RE_FULL_ADDR(d.body_text)
             cap_match  == RE_CAP(Lower(d.body_text))
         IN  [broker_name |-> d.broker_name, broker_phone |-> d.broker_phone,
              broker_email |-> d.broker_email, broker_company |-> d.broker_company,
              beds |-> DetailBeds(d.body_text), units |-> DetailUnits(d.body_text),
              sqft |-> IF sf_match # <<>> THEN sf_match[1] \o " SF" ELSE "",
              address |-> IF addr_match # <<>> THEN Strip(addr_match[1]) ELSE "",
              cap_rate |-> IF cap_match # <<>> THEN cap_match[1] \o "% CAP" ELSE "",
              property_type |-> ""]

\* not x, for the value x of field k: the counts are integers, the rest strings
Falsy(k, x) == IF k \in {"beds", "units"} THEN x = 0 ELSE x = ""

\* the merge that overwrites: "if detail[k]" without "and not lst.get(k)"
MergeDetail_Overwrite(lst, detail) ==
    [k \in DOMAIN lst |->
        IF k \in DOMAIN detail /\ ~Falsy(k, detail[k]) THEN detail[k] ELSE lst[k]]

\* for k in detail: if detail[k] and not lst.get(k): lst[k] = detail[k]
MergeDetail(lst, detail) ==
    [k \in DOMAIN lst |->
        IF k \in DOMAIN detail /\ ~Falsy(k, detail[k]) /\ Falsy(k, lst[k]) THEN detail[k] ELSE lst[k]]

\* the detail scrape is skipped: no URL, or the broker contact is all there
SkipsDetail(lst) ==
    \/ lst.listing_url = ""
    \/ (lst.broker_phone # "" /\ lst.broker_email # "" /\ lst.broker_name # "")

(***************************************************************************)
(* SpecParser: parse_listing_text on blocks built from a pool of lines    *)
(***************************************************************************)
MaxLines == 2

ScenarioBlock ==
    "Sunrise Senior Living\n120 Bed Assisted Living\n$12,500,000\n456 Main St, Springfield, IL 62704\nMarcus & Millichap"

LinePool ==
    {"Sunrise Senior Living", "120 Bed Assisted Living", "$12,500,000",
     "456 Main St, Springfield, IL 62704", "Marcus & Millichap",
     "$2,100,000 - 9 Elm Rd, Salem, OR", "View Details $900,000",
     "40 Units 18,000 SF", "Price Not Disclosed · 24 rooms", "Save Search",
     "$5,000,000 | 20,000 SF", "24 beds - 12 Oak Ave, Reno, NV", "55 Licensed"}

LinkPool == {"", "https://www.loopnet.com/Listing/1"}

\* the thresholds as the module sets them
MIN_BEDS == 50
MIN_UNITS == 40

ParserIdle == block = "" /\ nlines = 0 /\ listing = None /\ parsed = FALSE /\ info = None
DedupeIdle == listings = <<>> /\ out = <<>> /\ deduped = FALSE
FilterIdle ==
    /\ candidates = <<>> /\ final = <<>> /\ filtered = FALSE
    /\ min_beds = MIN_BEDS /\ min_units = MIN_UNITS
ImportIdle ==
    /\ states_input = <<>> /\ resolved = [codes |-> <<>>, unknown |-> <<>>, error |-> ""]
    /\ import_pc = "config" /\ navigations = 0
WaitIdle ==
    /\ caller = "" /\ timeout = 0 /\ elapsed = 0 /\ polled_at = -1
    /\ warned = FALSE /\ wait_pc = "idle" /\ result = FALSE
NotScraped ==
    [done |-> FALSE, strategy |-> "", blocks |-> <<>>, results |-> <<>>, cards |-> <<>>,
     dumped |-> FALSE]
ExtractIdle ==
    /\ shown = [found |-> [k \in 1..NUM_CARD_SELECTORS |-> <<>>], anchors |-> <<>>, body_text |-> ""]
    /\ nshown = 0 /\ scrape = NotScraped
MainIdle ==
    /\ pc = "start" /\ region = 1 /\ page_num = 1 /\ all_listings = <<>>
    /\ page_yield = <<>> /\ advances = <<>> /\ handed = <<>> /\ returned = <<>>
    /\ enrich_at = 1 /\ before = <<>> /\ last_detail = EmptyInfo /\ merged_at = 0
    /\ works = [query |-> TRUE, body |-> TRUE] /\ exported = <<>> /\ browser_open = TRUE

ParserInit == ParserIdle /\ DedupeIdle /\ FilterIdle /\ ImportIdle /\ WaitIdle /\ MainIdle /\ ExtractIdle

AppendLine ==
    /\ ~parsed /\ nlines < MaxLines
    /\ \E l \in LinePool : block' = IF nlines = 0 THEN l ELSE block \o "\n" \o l
    /\ nlines' = nlines + 1
    /\ UNCHANGED <<listing, parsed, info, dedupeVars, filterVars, importVars, waitVars, mainVars, extractVars>>

LoadScenario ==
    /\ ~parsed /\ nlines = 0
    /\ block' = ScenarioBlock
    /\ nlines' = MaxLines
    /\ UNCHANGED <<listing, parsed, info, dedupeVars, filterVars, importVars, waitVars, mainVars, extractVars>>

ParseBlock ==
    /\ ~parsed
    /\ \E link \in LinkPool : listing' = parse_listing_text(block, link, "IL")
    /\ parsed' = TRUE
    /\ UNCHANGED <<block, nlines, info, dedupeVars, filterVars, importVars, waitVars, mainVars, extractVars>>

\* scrape_detail_page on a detail page whose body is the text just parsed
EnrichBlock ==
    /\ parsed /\ info = None
    /\ info' = scrape_detail_page([BlankDetail EXCEPT !.body_text = block])
    /\ UNCHANGED <<block, nlines, listing, parsed, dedupeVars, filterVars, importVars, waitVars, mainVars, extractVars>>

ParserNext == AppendLine \/ LoadScenario \/ ParseBlock \/ EnrichBlock

SpecParser == ParserInit /\ [][ParserNext]_vars

(***************************************************************************)
(* The chain as a classification of lines: a line goes to the first       *)
(* category, in the order price, address, square footage, property type,  *)
(* broker company, whose pattern it matches and that no earlier line      *)
(* filled; 0 for a line on the stoplist or matching nothing left.         *)
(***************************************************************************)
Categories == 1..5

Pattern(c, line) ==
    CASE c = 1 -> PricePattern(line)
      [] c = 2 -> AddressPattern(line)
      [] c = 3 -> SqftPattern(line)
      [] c = 4 -> PropTypePattern(line)
      [] c = 5 -> BrokerPattern(line)

ValueOf(c, line) ==
    CASE c = 1 -> PriceValue(line)
      [] c = 3 -> SqftValue(line)
      [] OTHER -> Strip(line)

\* the first category from c on, not in used, whose pattern the line matches; 0 for none
RECURSIVE FirstOpen(_, _, _)
FirstOpen(line, used, c) ==
    IF c \notin Categories THEN 0
    ELSE IF c \notin used /\ Pattern(c, line) THEN c
    ELSE FirstOpen(line, used, c + 1)

RECURSIVE CategoryOfLines(_, _, _)
CategoryOfLines(lines, i, used) ==
    IF i > Len(lines) THEN <<>>
    ELSE LET c == IF Skipped(lines[i]) THEN 0 ELSE FirstOpen(lines[i], used, 1)
         IN  <<c>> \o CategoryOfLines(lines, i + 1, used \cup {c})

\* for each category c, the value of the (only) line classified into it, or ""
ClassifiedValues(lines) ==
    LET cat == CategoryOfLines(lines, 1, {})
    IN  [c \in Categories |->
            LET at == {i \in 1..Len(lines) : cat[i] = c}
            IN  IF at = {} THEN "" ELSE ValueOf(c, lines[CHOOSE i \in at : TRUE])]

ClassifiedValue(lines, c) == ClassifiedValues(lines)[c]

\* the value of the first line, off the stoplist, matching category c's pattern, or ""
FirstMatchValue(lines, c) ==
    LET at == {i \in 1..Len(lines) : ~Skipped(lines[i]) /\ Pattern(c, lines[i])}
    IN  IF at = {} THEN "" ELSE ValueOf(c, lines[CHOOSE i \in at : \A j \in at : i <= j])

\* C8 (as claimed): an accepted block's first line classified as broker
\* company is stored in broker_company; the end-to-end block gives
\* broker_company "Marcus & Millichap" with its price, address and beds.
C8_BrokerCompanyStored ==
    (parsed /\ listing # None) =>
        /\ listing.broker_company = ClassifiedValue(SplitLines(block), 5)
        /\ block = ScenarioBlock =>
              /\ listing.broker_company = "Marcus & Millichap"
              /\ listing.price = "$12,500,000"
              /\ listing.address = "456 Main St, Springfield, IL 62704"
              /\ listing.beds = 120

\* C10 (as claimed): each category's value is that of the first line, off
\* the stoplist, that matches the category's pattern.
C10_FirstMatchingLine ==
    (parsed /\ listing # None) =>
        LET lines == SplitLines(block)
        IN  /\ listing.price = FirstMatchValue(lines, 1)
            /\ listing.address = FirstMatchValue(lines, 2)
            /\ listing.sqft = FirstMatchValue(lines, 3)
            /\ listing.property_type = FirstMatchValue(lines, 4)
            /\ listing.broker_name = FirstMatchValue(lines, 5)

\* C10 (amended): each category's value is that of the first line, off the
\* stoplist, that the chain classifies into it (the line matches its pattern
\* and no earlier, still unfilled category of the chain took the line); the
\* property type may instead come from the secondary pass when no line was
\* classified as address or property type.
C10_FirstClassifiedLine ==
    (parsed /\ listing # None) =>
        LET lines == SplitLines(block)
            value == ClassifiedValues(lines)
        IN  /\ listing.price = value[1]
            /\ listing.address = value[2]
            /\ listing.sqft = value[3]
            /\ listing.property_type =
                  IF value[2] = "" /\ value[4] = "" THEN FallbackPropType(lines) ELSE value[4]
            /\ listing.broker_name = value[5]

\* a block whose first address-shaped line was taken as the price and whose
\* address comes from a later line
C10_Witness ==
    /\ parsed /\ listing # None
    /\ LET lines == SplitLines(block)
       IN  /\ listing.address # ""
           /\ listing.address # FirstMatchValue(lines, 2)
           /\ listing.address = ClassifiedValue(lines, 2)

\* C13: on the same text the Field Parser and the Detail Enricher extract the
\* same bed count, the same unit count (room fallback included) and the same
\* cap rate.
C13_SameExtraction ==
    (parsed /\ listing # None /\ info # None) =>
        /\ listing.beds = info.beds
        /\ listing.units = info.units
        /\ listing.cap_rate = info.cap_rate

(***************************************************************************)
(* Dedup & Filter Engine: dedupe, meets_criteria, the exclusion loop      *)
(***************************************************************************)
\* dedupe's key without .lower()
DedupeKey_NoLower(l) ==
    IF l.listing_url # "" THEN l.listing_url
    ELSE IF Strip(l.address) # "" THEN Strip(l.address)
    ELSE l.price

\* l.get("listing_url", "") or l.get("address", "").strip().lower() or l.get("price", "")
DedupeKey(l) ==
    IF l.listing_url # "" THEN l.listing_url
    ELSE IF Lower(Strip(l.address)) # "" THEN Lower(Strip(l.address))
    ELSE l.price

RECURSIVE DedupeFrom(_, _, _, _)
DedupeFrom(ls, i, seen, acc) ==
    IF i > Len(ls) THEN acc
    ELSE LET key == DedupeKey(ls[i])
         IN  IF key # "" /\ key \notin seen
             THEN DedupeFrom(ls, i + 1, seen \cup {key}, Append(acc, ls[i]))
             ELSE DedupeFrom(ls, i + 1, seen, acc)

\* dedupe that keeps every record
dedupe_KeepAll(ls) == ls

dedupe(ls) == DedupeFrom(ls, 1, {}, <<>>)

\* meets_criteria with "and" for "or"
meets_criteria_And(lst) ==
    IF lst.beds = 0 /\ lst.units = 0 THEN TRUE
    ELSE lst.beds >= min_beds /\ lst.units >= min_units

meets_criteria(lst) ==
    LET beds  == lst.beds
        units == lst.units
    IN  IF beds = 0 /\ units = 0 THEN TRUE
        ELSE beds >= min_beds \/ units >= min_units

\* the secondary exclusion of main: both counts known and both under threshold
\* the exclusion with "or" between the two counts
Excluded_Or(l) == (l.beds > 0 /\ l.beds < min_beds) \/ (l.units > 0 /\ l.units < min_units)

Excluded(l) == l.beds > 0 /\ l.beds < min_beds /\ l.units > 0 /\ l.units < min_units

\* filtered = [l for l in all_listings if meets_criteria(l)], then the loop building final
SizeFilter(ls) ==
    LET kept == SelectSeq(ls, meets_criteria)
    IN  SelectSeq(kept, LAMBDA l : ~Excluded(l))

(***************************************************************************)
(* SpecDedupe: dedupe on lists of records the Field Parser accepts        *)
(***************************************************************************)
MaxListings == 3

DedupeBlocks ==
    {"120 Bed Assisted Living",
     "$12,500,000\n456 Main St, Springfield, IL 62704",
     "$900,000\n  456 MAIN ST, SPRINGFIELD, IL 62704",
     "$12,500,000 · 40 Units"}

\* the records parse_listing_text returns for these blocks
AcceptedRecords ==
    {parse_listing_text(b, u, "IL") : b \in DedupeBlocks, u \in LinkPool} \ {None}

DedupeInit == ParserIdle /\ DedupeIdle /\ FilterIdle /\ ImportIdle /\ WaitIdle /\ MainIdle /\ ExtractIdle

Discover ==
    /\ ~deduped /\ Len(listings) < MaxListings
    /\ \E l \in AcceptedRecords : listings' = Append(listings, l)
    /\ UNCHANGED <<out, deduped, parserVars, filterVars, importVars, waitVars, mainVars, extractVars>>

RunDedupe ==
    /\ ~deduped
    /\ out' = dedupe(listings)
    /\ deduped' = TRUE
    /\ UNCHANGED <<listings, parserVars, filterVars, importVars, waitVars, mainVars, extractVars>>

DedupeNext == Discover \/ RunDedupe

SpecDedupe == DedupeInit /\ [][DedupeNext]_vars

\* the natural key as the claim words it
NaturalKey(l) ==
    IF l.listing_url # "" THEN l.listing_url
    ELSE IF Lower(Strip(l.address)) # "" THEN Lower(Strip(l.address))
    ELSE l.price

\* the records of ls at the positions in keep, in order
RECURSIVE Pick(_, _, _)
Pick(ls, i, keep) ==
    IF i > Len(ls) THEN <<>>
    ELSE (IF i \in keep THEN <<ls[i]>> ELSE <<>>) \o Pick(ls, i + 1, keep)

FirstOfKey(ls) == {i \in 1..Len(ls) : \A j \in 1..(i - 1) : NaturalKey(ls[j]) # NaturalKey(ls[i])}

\* C1 (as claimed): the output is the subsequence of the first record of each
\* distinct natural key; a record is dropped only if an earlier one has its key.
C1_FirstPerKey == deduped => out = Pick(listings, 1, FirstOfKey(listings))

\* C1 (amended): the output is the subsequence of the first record of each
\* distinct non-empty natural key; a record is dropped only if an earlier one
\* has its key or its own key is empty (no URL, no address, no price).
C1_FirstPerNonEmptyKey ==
    deduped => out = Pick(listings, 1, {i \in FirstOfKey(listings) : NaturalKey(listings[i]) # ""})

\* two records share a key through the case of their addresses, a third has none
C1_Witness ==
    /\ deduped
    /\ \E i, j \in 1..Len(listings) :
          /\ i < j
          /\ listings[i].listing_url = "" /\ listings[j].listing_url = ""
          /\ listings[i].address # listings[j].address
          /\ NaturalKey(listings[i]) = NaturalKey(listings[j])
    /\ \E i \in 1..Len(listings) : NaturalKey(listings[i]) = ""
    /\ Len(out) = 1

(***************************************************************************)
(* SpecFilter: the size filter on lists of records                        *)
(***************************************************************************)
MaxCandidates == 1

CountPool == {0, 1, 10, 39, 40, 49, 50, 120}

\* a record as the Field Parser builds it, with the given counts
RecordWith(beds, units) ==
    [address |-> "", price |-> "$12,500,000", beds |-> beds, units |-> units,
     sqft |-> "", property_type |-> "", cap_rate |-> "",
     broker_name |-> "", broker_phone |-> "", broker_email |-> "",
     broker_company |-> "", listing_url |-> "https://www.loopnet.com/Listing/1", state |-> "IL"]

FilterInit == ParserIdle /\ DedupeIdle /\ FilterIdle /\ ImportIdle /\ WaitIdle /\ MainIdle /\ ExtractIdle

AddCandidate ==
    /\ ~filtered /\ Len(candidates) < MaxCandidates
    /\ \E b \in CountPool, u \in CountPool : candidates' = Append(candidates, RecordWith(b, u))
    /\ UNCHANGED <<final, filtered, min_beds, min_units, parserVars, dedupeVars, importVars, waitVars, mainVars, extractVars>>

RunFilter ==
    /\ ~filtered
    /\ final' = SizeFilter(candidates)
    /\ filtered' = TRUE
    /\ UNCHANGED <<candidates, min_beds, min_units, parserVars, dedupeVars, importVars, waitVars, mainVars, extractVars>>

FilterNext == AddCandidate \/ RunFilter

SpecFilter == FilterInit /\ [][FilterNext]_vars

InFinal(l) == \E i \in 1..Len(final) : final[i] = l

\* C2: a record with no known count is in the final set; so is one with
\* beds >= MIN_BEDS, whatever its units, and one with units >= MIN_UNITS,
\* whatever its beds; one with both counts known and under threshold is not.
C2_SizeFilter ==
    filtered =>
        \A i \in 1..Len(candidates) :
            LET l == candidates[i]
            IN  /\ (l.beds = 0 /\ l.units = 0) => InFinal(l)
                /\ l.beds >= MIN_BEDS => InFinal(l)
                /\ l.units >= MIN_UNITS => InFinal(l)
                /\ (0 < l.beds /\ l.beds < MIN_BEDS /\ 0 < l.units /\ l.units < MIN_UNITS)
                      => ~InFinal(l)

\* the filter ran on a record kept for its beds although its units are known and low
C2_Witness ==
    /\ filtered
    /\ \E i \in 1..Len(candidates) :
          /\ candidates[i].beds >= MIN_BEDS
          /\ 0 < candidates[i].units /\ candidates[i].units < MIN_UNITS
          /\ InFinal(candidates[i])

(***************************************************************************)
(* SpecThresholds: the size filter under other values of MIN_BEDS and     *)
(* MIN_UNITS than the module's own                                        *)
(***************************************************************************)
ThresholdPool == {0, 40, 50, 121}

ThresholdsInit == ParserIdle /\ DedupeIdle /\ FilterIdle /\ ImportIdle /\ WaitIdle /\ MainIdle /\ ExtractIdle

\* MIN_BEDS and MIN_UNITS are given other values before any record is looked at
SetThresholds ==
    /\ ~filtered /\ candidates = <<>>
    /\ \E b \in ThresholdPool, u \in ThresholdPool : min_beds' = b /\ min_units' = u
    /\ UNCHANGED <<candidates, final, filtered, parserVars, dedupeVars, importVars, waitVars, mainVars, extractVars>>

ThresholdsNext == SetThresholds \/ AddCandidate \/ RunFilter

SpecThresholds == ThresholdsInit /\ [][ThresholdsNext]_vars

\* C15: the exclusion step of main never removes a record that passed
\* meets_criteria: whatever the thresholds, a record meets_criteria keeps
\* does not satisfy the exclusion test, and the final list is the list
\* filtered by meets_criteria alone.
C15_ExclusionRemovesNothing ==
    filtered =>
        /\ \A i \in 1..Len(candidates) : meets_criteria(candidates[i]) => ~Excluded(candidates[i])
        /\ final = SelectSeq(candidates, meets_criteria)

\* the filter ran, under thresholds that are not the module's, on a record
\* the exclusion test holds for; meets_criteria had dropped it already
C15_Witness ==
    /\ filtered /\ min_beds # MIN_BEDS /\ min_units # MIN_UNITS
    /\ \E i \in 1..Len(candidates) : Excluded(candidates[i]) /\ ~InFinal(candidates[i])

(***************************************************************************)
(* Region resolution: _normalize_state_token, the alias table,            *)
(* _expand_states                                                         *)
(***************************************************************************)
STATES_INPUT ==
    <<"Alabama", "Arkansas", "Arizona", "California", "COlorado", "Idaho", "Illinois",
      "Maryland", "Massachusets", "Michigan", "Minesota", "Montana", "Nebraska", "Nevada",
      "New Hampshire", "NOrth Carolina", "Ohio", "Okakhoma", "Oregon", "PA", "RI", "SC",
      "TN", "TX", "UT", "VT", "Wisconsin", "WY">>

\* the characters lo..hi of s that are in a-z
RECURSIVE LettersRange(_, _, _)
LettersRange(s, lo, hi) ==
    IF lo > hi THEN ""
    ELSE IF lo = hi THEN (IF Ch(s, lo) \in LowerSet THEN Ch(s, lo) ELSE "")
    ELSE LET mid == (lo + hi) \div 2
         IN  LettersRange(s, lo, mid) \o LettersRange(s, mid + 1, hi)

\* re.sub(r"[^a-z]", "", (s or "").lower())
normalize_state_token(s) == LET l == Lower(s) IN LettersRange(l, 1, Len(l))

US_STATE_CODES ==
    <<
      <<"AL", "Alabama">>, <<"AK", "Alaska">>, <<"AZ", "Arizona">>, <<"AR", "Arkansas">>,
      <<"CA", "California">>, <<"CO", "Colorado">>, <<"CT", "Connecticut">>, <<"DE", "Delaware">>,
      <<"FL", "Florida">>, <<"GA", "Georgia">>, <<"HI", "Hawaii">>, <<"ID", "Idaho">>,
      <<"IL", "Illinois">>, <<"IN", "Indiana">>, <<"IA", "Iowa">>, <<"KS", "Kansas">>,
      <<"KY", "Kentucky">>, <<"LA", "Louisiana">>, <<"ME", "Maine">>, <<"MD", "Maryland">>,
      <<"MA", "Massachusetts">>, <<"MI", "Michigan">>, <<"MN", "Minnesota">>, <<"MS", "Mississippi">>,
      <<"MO", "Missouri">>, <<"MT", "Montana">>, <<"NE", "Nebraska">>, <<"NV", "Nevada">>,
      <<"NH", "New Hampshire">>, <<"NJ", "New Jersey">>, <<"NM", "New Mexico">>, <<"NY", "New York">>,
      <<"NC", "North Carolina">>, <<"ND", "North Dakota">>, <<"OH", "Ohio">>, <<"OK", "Oklahoma">>,
      <<"OR", "Oregon">>, <<"PA", "Pennsylvania">>, <<"RI", "Rhode Island">>, <<"SC", "South Carolina">>,
      <<"SD", "South Dakota">>, <<"TN", "Tennessee">>, <<"TX", "Texas">>, <<"UT", "Utah">>,
      <<"VT", "Vermont">>, <<"VA", "Virginia">>, <<"WA", "Washington">>, <<"WV", "West Virginia">>,
      <<"WI", "Wisconsin">>, <<"WY", "Wyoming">>, <<"DC", "District of Columbia">>
    >>

\* the assignments to _STATE_ALIASES, in order: <<key, code>>
AliasAssignments ==
    LET n == Len(US_STATE_CODES)
    IN  [i \in 1..(2 * n) |->
            LET e == US_STATE_CODES[(i + 1) \div 2]
            IN  <<normalize_state_token(IF i % 2 = 1 THEN e[1] ELSE e[2]), e[1]>>]
        \o <<<<normalize_state_token("Massachusets"), "MA">>,
             <<normalize_state_token("Minesota"), "MN">>,
             <<normalize_state_token("Okakhoma"), "OK">>>>

\* the dict: each key maps to the code of the last assignment to it
STATE_ALIASES ==
    [k \in {AliasAssignments[i][1] : i \in DOMAIN AliasAssignments} |->
        LET at == {i \in DOMAIN AliasAssignments : AliasAssignments[i][1] = k}
        IN  AliasAssignments[CHOOSE i \in at : \A j \in at : i >= j][2]]

\* _STATE_ALIASES.get(key): "" for None
AliasGet(key) == IF key \in DOMAIN STATE_ALIASES THEN STATE_ALIASES[key] ELSE ""

InSeq(x, q) == \E i \in 1..Len(q) : q[i] = x

RECURSIVE JoinFrom(_, _, _)
JoinFrom(q, i, sep) ==
    IF i > Len(q) THEN ""
    ELSE IF i = Len(q) THEN q[i]
    ELSE q[i] \o sep \o JoinFrom(q, i + 1, sep)

\* sep.join(q)
Join(q, sep) == JoinFrom(q, 1, sep)

\* the loop collecting the normalized key, not the raw token, of an unknown state
RECURSIVE ExpandFrom_Key(_, _, _, _)
ExpandFrom_Key(input, i, codes, unknown) ==
    IF i > Len(input) THEN <<codes, unknown>>
    ELSE LET key  == normalize_state_token(input[i])
             code == AliasGet(key)
         IN  IF code = "" THEN ExpandFrom_Key(input, i + 1, codes, Append(unknown, key))
             ELSE IF ~InSeq(code, codes) THEN ExpandFrom_Key(input, i + 1, Append(codes, code), unknown)
             ELSE ExpandFrom_Key(input, i + 1, codes, unknown)

\* the for loop of _expand_states: <<codes, unknown>>
RECURSIVE ExpandFrom(_, _, _, _)
ExpandFrom(input, i, codes, unknown) ==
    IF i > Len(input) THEN <<codes, unknown>>
    ELSE LET raw  == input[i]
             code == AliasGet(normalize_state_token(raw))
         IN  IF code = "" THEN ExpandFrom(input, i + 1, codes, Append(unknown, raw))
             ELSE IF ~InSeq(code, codes) THEN ExpandFrom(input, i + 1, Append(codes, code), unknown)
             ELSE ExpandFrom(input, i + 1, codes, unknown)

UnknownMessage(unknown) ==
    "Unknown state(s): " \o Join(unknown, ", ")
    \o ". Use a 2-letter code (e.g., 'PA') or full state name (e.g., 'Pennsylvania')."

\* _expand_states: the codes returned, or the ValueError raised (error # "")
expand_states(input) ==
    LET r       == ExpandFrom(input, 1, <<>>, <<>>)
        codes   == r[1]
        unknown == r[2]
    IN  IF unknown # <<>>
        THEN [codes |-> <<>>, unknown |-> unknown, error |-> UnknownMessage(unknown)]
        ELSE [codes |-> codes, unknown |-> <<>>, error |-> ""]

\* STATES = _expand_states(STATES_INPUT), as the program is configured
STATES == expand_states(STATES_INPUT).codes

(***************************************************************************)
(* SpecImport: the module's top level on lists of tokens, then main       *)
(***************************************************************************)
MaxTokens == 2

TokenPool ==
    {"PA", "pa", "Pennsylvania", "Massachusets", "NOrth Carolina", "New Hampshire",
     "Okakhoma", "Texass", "Puerto Rico", ""}

ImportInit == ParserIdle /\ DedupeIdle /\ FilterIdle /\ ImportIdle /\ WaitIdle /\ MainIdle /\ ExtractIdle

AddToken ==
    /\ import_pc = "config" /\ Len(states_input) < MaxTokens
    /\ \E t \in TokenPool : states_input' = Append(states_input, t)
    /\ UNCHANGED <<resolved, import_pc, navigations, parserVars, dedupeVars, filterVars, waitVars, mainVars, extractVars>>

\* STATES = _expand_states(STATES_INPUT): the import ends there when it raises
ImportModule ==
    /\ import_pc = "config"
    /\ resolved' = expand_states(states_input)
    /\ import_pc' = IF resolved'.error # "" THEN "raised" ELSE "imported"
    /\ UNCHANGED <<states_input, navigations, parserVars, dedupeVars, filterVars, waitVars, mainVars, extractVars>>

\* main(): its first navigate
StartMain ==
    /\ import_pc = "imported"
    /\ import_pc' = "main"
    /\ navigations' = navigations + 1
    /\ UNCHANGED <<states_input, resolved, parserVars, dedupeVars, filterVars, waitVars, mainVars, extractVars>>

ImportNext == AddToken \/ ImportModule \/ StartMain

SpecImport == ImportInit /\ [][ImportNext]_vars

\* the code each token of the pool stands for, "" for none: a 2-letter code,
\* a full name or a declared misspelling, in any case
CanonicalCode(t) ==
    CASE t \in {"PA", "pa", "Pennsylvania"} -> "PA"
      [] t = "Massachusets" -> "MA"
      [] t = "NOrth Carolina" -> "NC"
      [] t = "New Hampshire" -> "NH"
      [] t = "Okakhoma" -> "OK"
      [] OTHER -> ""

Unresolved(input) == SelectSeq(input, LAMBDA t : CanonicalCode(t) = "")

\* C5: if every token resolves, the result holds each token's canonical code;
\* otherwise the call raises the error listing exactly the unresolved tokens,
\* and no navigation is ever issued.
C5_RegionResolution ==
    /\ import_pc \in {"imported", "main"} =>
          /\ Unresolved(states_input) = <<>>
          /\ \A i \in 1..Len(states_input) : InSeq(CanonicalCode(states_input[i]), resolved.codes)
          /\ \A j \in 1..Len(resolved.codes) :
                \E i \in 1..Len(states_input) : CanonicalCode(states_input[i]) = resolved.codes[j]
    /\ import_pc = "raised" =>
          /\ Unresolved(states_input) # <<>>
          /\ resolved.unknown = Unresolved(states_input)
          /\ resolved.error = UnknownMessage(Unresolved(states_input))
          /\ navigations = 0
    /\ navigations > 0 => Unresolved(states_input) = <<>>

\* a list with a resolved misspelling and an unresolved token raised the error
C5_Witness ==
    /\ import_pc = "raised"
    /\ Len(states_input) = 2
    /\ Len(resolved.unknown) = 1
    /\ \E i \in 1..2 : states_input[i] = "Massachusets"

(***************************************************************************)
(* Challenge wait: wait_for_captcha.  Time is counted in whole seconds;   *)
(* page.content() takes 0..MaxReadSecs of them, time.sleep(2) takes 2.    *)
(***************************************************************************)
MaxReadSecs == 1

POLL_SLEEP == 2
NAVIGATE_TIMEOUT == 180
PAGINATION_TIMEOUT == 30
DETAIL_TIMEOUT == 60

\* the timeout each call site passes
TimeoutOf(site) ==
    CASE site = "navigate" -> NAVIGATE_TIMEOUT
      [] site = "main" -> PAGINATION_TIMEOUT
      [] site = "scrape_detail_page" -> DETAIL_TIMEOUT

\* while time.time() - start < timeout, evaluated with <= for <
LoopCondition_Le(t, limit) == t <= limit

\* while time.time() - start < timeout
LoopCondition(t, limit) == t < limit

WaitInit == ParserIdle /\ DedupeIdle /\ FilterIdle /\ ImportIdle /\ WaitIdle /\ MainIdle /\ ExtractIdle

\* wait_for_captcha(page, timeout) is entered: warned = False, start = time.time()
CallWait ==
    /\ wait_pc = "idle"
    /\ \E site \in {"navigate", "main", "scrape_detail_page"} :
          caller' = site /\ timeout' = TimeoutOf(site)
    /\ elapsed' = 0 /\ polled_at' = -1 /\ warned' = FALSE
    /\ wait_pc' = "loop"
    /\ UNCHANGED <<result, parserVars, dedupeVars, filterVars, importVars, mainVars, extractVars>>

\* one iteration of the while loop: page.content() raises, shows no marker, or shows one
Poll ==
    /\ wait_pc = "loop" /\ LoopCondition(elapsed, timeout)
    /\ polled_at' = elapsed
    /\ \E d \in 0..MaxReadSecs, seen \in {"raises", "clear", "marker"} :
          CASE seen = "raises" ->
                 /\ elapsed' = elapsed + d + POLL_SLEEP
                 /\ UNCHANGED <<warned, wait_pc, result>>
            [] seen = "clear" ->
                 /\ elapsed' = elapsed + d
                 /\ wait_pc' = "returned" /\ result' = TRUE
                 /\ UNCHANGED warned
            [] seen = "marker" ->
                 /\ warned' = TRUE
                 /\ elapsed' = elapsed + d + POLL_SLEEP
                 /\ UNCHANGED <<wait_pc, result>>
    /\ UNCHANGED <<caller, timeout, parserVars, dedupeVars, filterVars, importVars, mainVars, extractVars>>

\* the loop condition fails: "CAPTCHA timeout.", return False
Expire ==
    /\ wait_pc = "loop" /\ ~LoopCondition(elapsed, timeout)
    /\ wait_pc' = "returned" /\ result' = FALSE
    /\ UNCHANGED <<caller, timeout, elapsed, polled_at, warned,
                   parserVars, dedupeVars, filterVars, importVars, mainVars, extractVars>>

\* the caller drops the returned value and goes on (navigate: time.sleep(1);
\* main: the next scrape_search_page; scrape_detail_page: scroll_page)
CallerContinues ==
    /\ wait_pc = "returned"
    /\ wait_pc' = "continued"
    /\ UNCHANGED <<caller, timeout, elapsed, polled_at, warned, result,
                   parserVars, dedupeVars, filterVars, importVars, mainVars, extractVars>>

WaitNext == CallWait \/ Poll \/ Expire \/ CallerContinues

SpecWait == WaitInit /\ [][WaitNext]_vars

\* C9 (as claimed): the wait is over no later than its ceiling.
C9_EndsByCeiling == wait_pc \in {"returned", "continued"} => elapsed <= timeout

\* C9 (amended): no poll begins at or after the ceiling, so the wait is over
\* less than one poll (a page-content read and the 2 s sleep) after it; a
\* poll that sees no marker ends the wait at once with success; on expiry the
\* wait returns False and the caller goes on.
C9_EndsWithinOnePollOfCeiling ==
    /\ timeout \in {0, NAVIGATE_TIMEOUT, PAGINATION_TIMEOUT, DETAIL_TIMEOUT}
    /\ polled_at < timeout \/ wait_pc = "idle"
    /\ elapsed < timeout + MaxReadSecs + POLL_SLEEP \/ wait_pc = "idle"
    /\ wait_pc \in {"returned", "continued"} =>
          /\ result => (polled_at >= 0 /\ elapsed <= polled_at + MaxReadSecs)
          /\ ~result => elapsed >= timeout
    /\ wait_pc = "returned" => ENABLED CallerContinues

\* the ceiling expired after a poll that began just under it, and the caller went on
C9_Witness ==
    /\ wait_pc = "continued" /\ ~result /\ warned
    /\ caller = "main"
    /\ elapsed > timeout

(***************************************************************************)
(* Spec: one run of main, from "Opening LoopNet..." to the closed browser *)
(***************************************************************************)
MAX_PAGES == 12

NumRegions == 2     \* the first NumRegions codes of STATES are visited

\* the outcome of a browser call that takes a timeout
Outcomes == {"ok", "timeout", "error"}

\* try: ... except PWTimeout: the outcomes that do not leave the try
PassesPWTimeout(o) == o \in {"ok", "timeout"}

\* navigate: "returned", or "raised" when goto or wait_for_load_state raises
\* something that is not a timeout (wait_for_captcha contains all it meets)
navigate(goto, load) ==
    IF PassesPWTimeout(goto) /\ PassesPWTimeout(load) THEN "returned" ELSE "raised"

\* click_next: True when a selector's button, or else a "Next" link, is
\* clicked; a query or click that raises moves on to the next attempt
click_next(css, fallback) == css = "clicked" \/ fallback = "clicked"

ClickOutcomes == {"clicked", "absent", "raised"}

\* while page_num <= MAX_PAGES
LoopContinues_Lt(n) == n < MAX_PAGES
LoopContinues(n) == n <= MAX_PAGES

(* the search result pages the site serves, and its detail pages *)
PageCards ==
    [found |-> (3 :> <<[text |-> "Sponsored placement", link |-> <<>>]>>) @@
               (6 :> <<[text |-> ScenarioBlock, link |-> <<"/Listing/1">>],
                       [text |-> "Save Search\nSign Up", link |-> <<>>],
                       [text |-> "Oak Manor Memory Care\n12 Oak Ave, Reno, NV\nCall for Price",
                        link |-> <<"/Listing/2">>]>>),
     anchors |-> <<[href |-> "/Listing/1", text |-> "Sunrise Senior Living"]>>,
     body_text |-> "Sunrise Senior Living\n$12,500,000\n456 Main St, Springfield, IL 62704\nView Details · Save Search"]

PageLinks ==
    [found |-> <<>>,
     anchors |-> <<[href |-> "/search/assisted-living/Listing/9", text |-> "All assisted living"],
                   [href |-> "/Listing/1", text |-> "$12,500,000\n456 Main St, Springfield, IL 62704"],
                   [href |-> "/Listing/3", text |-> "Elm Court\n24 rooms"],
                   [href |-> "/Listing/4", text |-> "View Details $900,000"],
                   [href |-> "/about", text |-> "About us"]>>,
     body_text |-> "Elm Court\n24 rooms\nView Listing"]

PageText ==
    [found |-> <<>>, anchors |-> <<[href |-> "/about", text |-> "About us"]>>,
     body_text |-> "Results\nView Details · Pine Lodge\n60 Beds\n9 Elm Rd, Salem, OR 97301 View Details · Unit mix to be confirmed by the seller View Details · Birch House\n45 units\n$2,100,000"]

EmptyPage == [found |-> <<>>, anchors |-> <<>>, body_text |-> "No results found"]

SitePages == <<PageCards, PageLinks, PageText>>

\* result page n of a region, while the region has results
SitePage(n) == ((n - 1) % Len(SitePages)) + 1

Rendered(k) == IF k = 0 THEN EmptyPage ELSE SitePages[k]

DetailPages ==
    (LOOPNET \o "/Listing/1" :>
        [raises |-> FALSE,
         body_text |-> "Sunrise Senior Living\n150 licensed beds\n460 Main St, Springfield, IL 62704\n6.5% cap rate",
         broker_name |-> "Jane Doe", broker_phone |-> "555-123-4567",
         broker_email |-> "jane@mmreis.example", broker_company |-> "Marcus & Millichap"]) @@
    (LOOPNET \o "/Listing/2" :>
        [raises |-> FALSE, body_text |-> "Oak Manor\n30 licensed beds and 20 units\n18,000 SF",
         broker_name |-> "", broker_phone |-> "(555) 999-0000",
         broker_email |-> "", broker_company |-> ""]) @@
    (LOOPNET \o "/Listing/3" :>
        [raises |-> FALSE, body_text |-> "Elm Court\n60 licensed beds\n9 Elm Rd, Salem, OR 97301",
         broker_name |-> "", broker_phone |-> "", broker_email |-> "", broker_company |-> ""])

DetailPage(url) == IF url \in DOMAIN DetailPages THEN DetailPages[url] ELSE BlankDetail

\* scrape_search_page on each page the site serves: its blocks, what the parser
\* returned for each, and the listings returned
WithCards(blocks, results) ==
    [blocks |-> blocks, results |-> results, cards |-> UniqueListings(results)]

WithResults(blocks, state) == WithCards(blocks, ParseBlocks(blocks, state))

Scraped ==
    [k \in 0..Len(SitePages), r \in 1..NumRegions, query_ok \in BOOLEAN, body_ok \in BOOLEAN |->
        WithResults(SearchBlocks(Rendered(k), query_ok, body_ok), STATES[r])]

MainInit == ParserIdle /\ DedupeIdle /\ FilterIdle /\ ImportIdle /\ WaitIdle /\ MainIdle /\ ExtractIdle

otherVars == <<parserVars, dedupeVars, filterVars, importVars, waitVars, extractVars>>

\* navigate(pg, "https://www.loopnet.com")
OpenSite ==
    /\ pc = "start"
    /\ \E goto \in Outcomes, load \in Outcomes :
          pc' = IF navigate(goto, load) = "raised" THEN "crashed" ELSE "region"
    /\ UNCHANGED <<region, page_num, all_listings, page_yield, advances, handed, returned,
                   enrich_at, before, last_detail, merged_at, works, exported, browser_open,
                   otherVars>>

\* navigate(pg, url); save_debug for the first; page_num = 1.  While the
\* region is visited the element queries all work or all raise, and so does
\* the read of the body text.
OpenRegion ==
    /\ pc = "region"
    /\ \E goto \in Outcomes, load \in Outcomes :
          pc' = IF navigate(goto, load) = "raised" THEN "crashed" ELSE "page"
    /\ \E query_ok \in BOOLEAN, body_ok \in BOOLEAN : works' = [query |-> query_ok, body |-> body_ok]
    /\ page_num' = 1 /\ page_yield' = <<>> /\ advances' = <<>>
    /\ UNCHANGED <<region, all_listings, handed, returned, enrich_at, before, last_detail,
                   merged_at, exported, browser_open, otherVars>>

\* main going on to dedupe after the first region's loop
AfterRegion_Dedupe == "dedupe"

\* where main goes when the while loop of a region ends
AfterRegion == IF region < NumRegions THEN "region" ELSE "dedupe"

\* the rest of an iteration, from what scrape_search_page did (got): an
\* empty page ends the loop, else the cards are kept and click_next decides
ExtendAndAdvance(got) ==
    /\ handed' = got.blocks /\ returned' = got.results
    /\ page_yield' = Append(page_yield, Len(got.cards))
    /\ all_listings' = all_listings \o got.cards
    /\ IF got.cards = <<>>
       THEN /\ pc' = AfterRegion
            /\ region' = IF region < NumRegions THEN region + 1 ELSE region
            /\ UNCHANGED <<advances, page_num>>
       ELSE \E css \in ClickOutcomes, fallback \in ClickOutcomes :
               /\ advances' = Append(advances, click_next(css, fallback))
               /\ page_num' = IF click_next(css, fallback) THEN page_num + 1 ELSE page_num
               /\ IF click_next(css, fallback) /\ LoopContinues(page_num + 1)
                  THEN pc' = "page" /\ UNCHANGED region
                  ELSE /\ pc' = AfterRegion
                       /\ region' = IF region < NumRegions THEN region + 1 ELSE region

\* one iteration of the while loop: scrape_search_page, then click_next
PageIteration ==
    /\ pc = "page"
    /\ \E load \in Outcomes, scroll_ok \in BOOLEAN :
          IF ~PassesPWTimeout(load) \/ ~scroll_ok
          THEN /\ pc' = "crashed"
               /\ UNCHANGED <<region, page_num, all_listings, page_yield, advances,
                              handed, returned>>
          ELSE \E results \in BOOLEAN :
                  ExtendAndAdvance(Scraped[IF results THEN SitePage(page_num) ELSE 0, region,
                                           works.query, works.body])
    /\ UNCHANGED <<enrich_at, before, last_detail, merged_at, works, exported, browser_open,
                   otherVars>>

\* all_listings = dedupe(all_listings)
Dedupe ==
    /\ pc = "dedupe"
    /\ all_listings' = dedupe(all_listings)
    /\ pc' = "enrich" /\ enrich_at' = 1
    /\ UNCHANGED <<region, page_num, page_yield, advances, handed, returned, before,
                   last_detail, merged_at, works, exported, browser_open, otherVars>>

\* one iteration of "for i, lst in enumerate(all_listings)"
EnrichOne ==
    /\ pc = "enrich" /\ enrich_at <= Len(all_listings)
    /\ \E raises \in BOOLEAN :
          LET lst    == all_listings[enrich_at]
              detail == scrape_detail_page([DetailPage(lst.listing_url) EXCEPT !.raises = raises])
          IN  IF SkipsDetail(lst)
              THEN UNCHANGED <<all_listings, before, last_detail, merged_at>>
              ELSE /\ all_listings' = [all_listings EXCEPT ![enrich_at] = MergeDetail(lst, detail)]
                   /\ before' = all_listings /\ last_detail' = detail /\ merged_at' = enrich_at
    /\ enrich_at' = enrich_at + 1
    /\ UNCHANGED <<pc, region, page_num, page_yield, advances, handed, returned, works,
                   exported, browser_open, otherVars>>

\* the size filter, then write_excel(final, output_file)
FilterAndExport ==
    /\ pc = "enrich" /\ enrich_at > Len(all_listings)
    /\ exported' = SizeFilter(all_listings)
    /\ pc' = "exported"
    /\ UNCHANGED <<region, page_num, all_listings, page_yield, advances, handed, returned,
                   enrich_at, before, last_detail, merged_at, works, browser_open, otherVars>>

\* finally: browser.close(); an exception then goes on out of main
Finally ==
    /\ pc \in {"exported", "crashed"}
    /\ browser_open' = FALSE
    /\ pc' = IF pc = "exported" THEN "done" ELSE "failed"
    /\ UNCHANGED <<region, page_num, all_listings, page_yield, advances, handed, returned,
                   enrich_at, before, last_detail, merged_at, works, exported, otherVars>>

Next == OpenSite \/ OpenRegion \/ PageIteration \/ Dedupe \/ EnrichOne \/ FilterAndExport \/ Finally

Spec == MainInit /\ [][Next]_vars

\* the record the last merge updated, before and after it
MergedOld == before[merged_at]
MergedNew == all_listings[merged_at]

\* C3: merge-if-missing.  When a detail result has been applied to a record,
\* every field that was non-empty (strings) or non-zero (counts) before the
\* merge has the same value after it; a field that changed was empty or zero
\* and now holds the detail page's non-empty value; no other record changed.
C3_MergeIfMissing ==
    merged_at > 0 =>
        /\ Len(all_listings) = Len(before)
        /\ \A j \in 1..Len(before) : j # merged_at => all_listings[j] = before[j]
        /\ DOMAIN MergedNew = DOMAIN MergedOld
        /\ \A k \in DOMAIN MergedOld :
              /\ ~Falsy(k, MergedOld[k]) => MergedNew[k] = MergedOld[k]
              /\ MergedNew[k] # MergedOld[k] =>
                    /\ Falsy(k, MergedOld[k])
                    /\ k \in DOMAIN last_detail
                    /\ MergedNew[k] = last_detail[k]
                    /\ ~Falsy(k, MergedNew[k])

\* a merge where the detail page has another value for a field the record
\* already has, and a value for a field the record lacks
C3_Witness ==
    /\ merged_at > 0
    /\ \E k \in DOMAIN last_detail :
          ~Falsy(k, MergedOld[k]) /\ ~Falsy(k, last_detail[k]) /\ last_detail[k] # MergedOld[k]
    /\ \E k \in DOMAIN last_detail : MergedNew[k] # MergedOld[k]

\* a price was found: some line that is not skipped matches a price pattern
PriceFound(text) ==
    \E i \in 1..Len(SplitLines(text)) :
        ~Skipped(SplitLines(text)[i]) /\ PricePattern(SplitLines(text)[i])

NothingFound(text) == ~PriceFound(text) /\ ParseBeds(text) = 0 /\ ParseUnits(text) = 0

Retained(l) == l.price # "" \/ l.beds > 0 \/ l.units > 0

\* C4: parser rejection and retention.  parse_listing_text yields no record
\* for a block exactly when no price was found in it and its bed and unit
\* counts (after the room fallback) are both zero; and every record held
\* after page extraction, dedup, enrichment and the size filter has a
\* non-empty price or a bed count or a unit count above zero.
C4_RejectionAndRetention ==
    /\ Len(returned) = Len(handed)
    /\ \A i \in 1..Len(handed) : (returned[i] = None) <=> NothingFound(handed[i][1])
    /\ \A i \in 1..Len(all_listings) : Retained(all_listings[i])
    /\ \A i \in 1..Len(exported) : Retained(exported[i])

\* the run has exported, and its last page had a block that was rejected and
\* a block accepted for its count alone
C4_Witness ==
    /\ pc = "done" /\ exported # <<>>
    /\ \E i \in 1..Len(returned) : returned[i] = None
    /\ \E i \in 1..Len(returned) : returned[i] # None /\ returned[i].price = ""

\* the while loop of the current region has ended
LoopOver == pc \in {"region", "dedupe", "enrich", "exported", "done"} /\ page_yield # <<>>

\* C6: the pagination loop of a region.  At most MAX_PAGES pages are scraped;
\* a page that yields no record is the last one scraped and click_next is not
\* called on it; when click_next first returns false, after page N, exactly N
\* pages have been scraped; and the loop ends only for an empty page, a
\* click_next that returned false, or MAX_PAGES pages scraped.
C6_PaginationLoop ==
    LET n == Len(page_yield)
        a == Len(advances)
    IN  /\ n <= MAX_PAGES
        /\ a <= n /\ n <= a + 1
        /\ \A k \in 1..n : page_yield[k] = 0 => k = n /\ a = n - 1
        /\ \A k \in 1..a : ~advances[k] => k = a /\ n = a /\ pc # "page"
        /\ pc = "page" => n = page_num - 1 /\ a = n
        /\ LoopOver => \/ page_yield[n] = 0
                       \/ (a = n /\ ~advances[a])
                       \/ (a = n /\ n = MAX_PAGES)

\* the second region's loop ended at three pages: click_next returned false
\* after the third
C6_Witness ==
    /\ pc = "done" /\ region = 2
    /\ Len(page_yield) = 3 /\ Len(advances) = 3 /\ ~advances[3]

\* C7: failure containment.  No failure of a browser interaction ends the
\* run: an exception never leaves main's try block, so the run always goes
\* on to the export.
C7_NoFailureEndsRun == pc \notin {"crashed", "failed"}

\* the stage of main a run is in: 1 collecting the regions, 2 about to
\* dedupe, 3 enriching, 4 size filter and export done; 0 when an exception
\* is on its way out of main
Stage(p) ==
    CASE p \in {"start", "region", "page"} -> 1
      [] p = "dedupe" -> 2
      [] p = "enrich" -> 3
      [] p \in {"exported", "done"} -> 4
      [] OTHER -> 0

InExported(l) == \E i \in 1..Len(exported) : exported[i] = l

\* both counts known and both under their thresholds
KnownAndSmall(l) == 0 < l.beds /\ l.beds < MIN_BEDS /\ 0 < l.units /\ l.units < MIN_UNITS

\* what each stage has and has not done yet
StagesDone ==
    /\ Stage(pc) \in {1, 2} => merged_at = 0 /\ enrich_at = 1 /\ exported = <<>>
    /\ Stage(pc) \in {2, 3, 4} => region = NumRegions
    /\ Stage(pc) = 3 => exported = <<>> /\ enrich_at <= Len(all_listings) + 1
    /\ Stage(pc) = 4 =>
          /\ enrich_at = Len(all_listings) + 1
          /\ exported = SelectSeq(all_listings, LAMBDA l : meets_criteria(l) /\ ~KnownAndSmall(l))
          /\ \A i \in 1..Len(all_listings) : KnownAndSmall(all_listings[i]) => ~InExported(all_listings[i])

\* what a step may do in the stage it is taken in
StageStep ==
    /\ Stage(pc) = 0 => Stage(pc') = 0
    /\ Stage(pc') # 0 => Stage(pc') \in {Stage(pc), Stage(pc) + 1}
    /\ region' # region => pc = "page" /\ pc' = "region" /\ region' = region + 1
    /\ all_listings' # all_listings =>
          \/ Stage(pc) = 1 /\ Len(all_listings') > Len(all_listings)
                /\ SubSeq(all_listings', 1, Len(all_listings)) = all_listings
          \/ Stage(pc) = 2 /\ all_listings' = dedupe(all_listings)
          \/ Stage(pc) = 3 /\ Stage(pc') = 3 /\ merged_at' = enrich_at
                /\ all_listings' = [all_listings EXCEPT ![enrich_at] = all_listings'[enrich_at]]
    /\ exported' # exported => Stage(pc) = 3 /\ Stage(pc') = 4 /\ all_listings' = all_listings

\* C14: pipeline ordering.  A run goes through the stages in the order
\* collect all regions, cross-page dedup, detail enrichment, size filter and
\* export, never back and never skipping one; the regions are opened one after
\* the other and dedupe runs after the last; the exported list is the size
\* filter of the records as they are after enrichment, so a record whose
\* counts are, after enrichment, both known and both under threshold is not
\* exported.
C14_PipelineOrder == []StagesDone /\ [][StageStep]_vars

\* a run is done; the record of /Listing/2 had no count on the list page, the
\* detail page gave it 30 beds and 20 units, and it is not exported
C14_Witness ==
    /\ pc = "done" /\ merged_at > 0
    /\ MergedOld.beds = 0 /\ MergedOld.units = 0
    /\ MergedNew.beds = 30 /\ MergedNew.units = 20
    /\ ~InExported(MergedNew)
    /\ exported # <<>>

\* no two records of ls have the same natural key
DistinctKeys(ls) ==
    \A i, j \in 1..Len(ls) : i # j => NaturalKey(ls[i]) # NaturalKey(ls[j])

\* from dedupe on, the records held and the records exported have distinct keys
KeysStayDistinct ==
    /\ Stage(pc) \in {3, 4} => DistinctKeys(all_listings) /\ DistinctKeys(exported)
    /\ merged_at > 0 => MergedOld.listing_url # ""

\* a step of the enrichment loop leaves every URL, and every record without one, as it is
EnrichmentKeepsUrls ==
    Stage(pc) = 3 =>
        /\ Len(all_listings') = Len(all_listings)
        /\ \A i \in 1..Len(all_listings) :
              /\ all_listings'[i].listing_url = all_listings[i].listing_url
              /\ all_listings[i].listing_url = "" => all_listings'[i] = all_listings[i]

\* C16: the records held after dedupe, through enrichment, and the records
\* exported have pairwise distinct natural keys (URL, else lower-cased
\* trimmed address, else price), though enrichment fills in addresses after
\* dedupe has run: enrichment changes only records with a URL, never changes
\* a URL, and leaves every record without a URL as it is.
C16_KeysSurviveEnrichment == []KeysStayDistinct /\ [][EnrichmentKeepsUrls]_vars

\* a run exported two records with the same address: one without a URL that
\* had it on the list page, one with a URL that got it from its detail page
C16_Witness ==
    /\ pc = "done" /\ merged_at > 0
    /\ MergedOld.address = "" /\ MergedNew.address # ""
    /\ InExported(MergedNew)
    /\ \E i \in 1..Len(exported) :
          /\ exported[i].listing_url = ""
          /\ Lower(Strip(exported[i].address)) = Lower(Strip(MergedNew.address))

(***************************************************************************)
(* SpecExtract: scrape_search_page on pages put together from a pool of   *)
(* card elements, anchors and body texts                                  *)
(***************************************************************************)
MaxShown == 2

\* "article.placard" and "[class*='PropertyCard']"
CardSelectorPool == {3, 6}

CardPool ==
    {[text |-> "Pine Lodge\n60 Beds\n9 Elm Rd, Salem, OR 97301", link |-> <<>>],
     [text |-> "PINE LODGE\n60 beds\n9 ELM RD, SALEM, OR 97301", link |-> <<>>],
     [text |-> "Birch House\n45 units\n$2,100,000", link |-> <<>>]}

AnchorPool ==
    {[href |-> "/Listing/1", text |-> "$12,500,000\n456 Main St, Springfield, IL 62704"],
     [href |-> "/search/Listing/9", text |-> "All assisted living listings"]}

BodyPool ==
    {"Results\nView Details · Pine Lodge\n60 Beds\n9 Elm Rd, Salem, OR 97301 View Details · Birch House\n45 units\n$2,100,000"}

ExtractInit == ParserIdle /\ DedupeIdle /\ FilterIdle /\ ImportIdle /\ WaitIdle /\ MainIdle /\ ExtractIdle

restVars == <<parserVars, dedupeVars, filterVars, importVars, waitVars, mainVars>>

\* the page has one more element matching a card selector
ShowCard ==
    /\ ~scrape.done /\ nshown < MaxShown
    /\ \E k \in CardSelectorPool, c \in CardPool :
          shown' = [shown EXCEPT !.found[k] = Append(@, c)]
    /\ nshown' = nshown + 1
    /\ UNCHANGED <<scrape, restVars>>

\* the page has one more <a> element
ShowAnchor ==
    /\ ~scrape.done /\ nshown < MaxShown
    /\ \E a \in AnchorPool : shown' = [shown EXCEPT !.anchors = Append(@, a)]
    /\ nshown' = nshown + 1
    /\ UNCHANGED <<scrape, restVars>>

\* the page has visible text
ShowBody ==
    /\ ~scrape.done /\ nshown = 0 /\ shown.body_text = ""
    /\ \E b \in BodyPool : shown' = [shown EXCEPT !.body_text = b]
    /\ UNCHANGED <<nshown, scrape, restVars>>

\* what scrape_search_page did, from the strategy it took and its blocks,
\* results and cards; save_debug is called on the way into the page-text strategy
Done(strategy, got) ==
    [done |-> TRUE, strategy |-> strategy, blocks |-> got.blocks, results |-> got.results,
     cards |-> got.cards, dumped |-> strategy = "page"]

\* scrape_search_page(page, "IL")
Extract ==
    /\ ~scrape.done
    /\ \E query_ok \in BOOLEAN, body_ok \in BOOLEAN :
          scrape' = Done(Strategy(shown, query_ok),
                         WithResults(SearchBlocks(shown, query_ok, body_ok), "IL"))
    /\ UNCHANGED <<shown, nshown, restVars>>

ExtractNext == ShowCard \/ ShowAnchor \/ ShowBody \/ Extract

SpecExtract == ExtractInit /\ [][ExtractNext]_vars

\* the most elements any card selector matches on the page shown
CardMatches ==
    LET n == {Len(shown.found[k]) : k \in 1..NUM_CARD_SELECTORS}
    IN  CHOOSE x \in n : \A y \in n : x >= y

\* the distinct hrefs on the page shown that are listing links
ListingHrefs ==
    {shown.anchors[i].href : i \in {j \in 1..Len(shown.anchors) :
        /\ RE_PROPERTY_PATH(shown.anchors[j].href)
        /\ ~ContainsAny(Lower(shown.anchors[j].href), LINK_SKIPS)}}

\* the elements of the first card selector that matches more than one
WinningCards ==
    shown.found[CHOOSE k \in 1..NUM_CARD_SELECTORS :
                    /\ Len(shown.found[k]) > 1
                    /\ \A j \in 1..(k - 1) : Len(shown.found[j]) <= 1]

\* the element queries of the scrape that was done did not raise
QueriesWorked == scrape.strategy # "page" \/ (CardMatches <= 1 /\ ListingHrefs = {})

Accepted == SelectSeq(scrape.results, LAMBDA l : l # None)

\* C12: the records returned for one page are the first record of each
\* natural key (URL, else lower-cased trimmed address, else price) among the
\* parsed records, in page order: no two returned records share a natural
\* key, and a record is dropped only if an earlier one of the page has its key.
C12_UniqueByNaturalKey ==
    scrape.done => scrape.cards = Pick(Accepted, 1, FirstOfKey(Accepted))

=============================================================================
